---- MODULE Spec2Model ----
(***************************************************************************)
(* A model of the ONVIF device session of Device.go: the endpoint table    *)
(* (addEndpoint, getEndpoint), the constructor NewDevice with its          *)
(* capabilities round trip, the dispatcher CallMethodInterface /           *)
(* CallMethod, and the WS-Discovery loop of                                *)
(* GetAvailableDevicesAtSpecificEthernetInterface.                         *)
(*                                                                         *)
(* Text is modelled as sequences: service names and map keys are sequences *)
(* of characters (strings.Contains and strings.ToLower work on them), and  *)
(* URLs, SOAP replies and type strings are sequences of lexical tokens on  *)
(* which url.Parse, URL.String, strings.Index and slicing are computed.    *)
(*                                                                         *)
(* The operations are functions of their arguments and of what the         *)
(* environment answers: the outcome of the HTTP exchange (net) and the     *)
(* key the map iteration of getEndpoint visits first (ep) are chosen by    *)
(* the actions.  Each result carries the ordered log of the steps taken    *)
(* (events) and the URLs POSTed to (posted).  Discovery replies carry, in  *)
(* every ProbeMatch, the XAddrs, EndpointReference/Address, Types and      *)
(* Scopes children of the WS-Discovery interface, so the index panics of   *)
(* the loop on absent children are outside the model.                      *)
(***************************************************************************)
EXTENDS Integers, Sequences, FiniteSets, TLC

VARIABLES
    dev,        \* <<>> or <<d>>: the Device the caller holds (nil or *Device)
    last,       \* record of the last operation on the session: inputs and results
    nCalls,     \* invocations of CallMethod and CallMethodInterface so far
    nServed,    \* those that got past validation, resolution and serialization
    nPosts,     \* HTTP POSTs issued by the invocations so far
    replies,    \* discovery: the raw reply documents soap.SendProbe returned
    ri,         \* discovery: index of the reply being processed (outer range loop)
    xi,         \* discovery: index of the XAddrs element being processed (inner loop)
    nvtDevices, \* discovery: the devices collected so far
    attempts,   \* discovery: log of the NewDevice constructions [addr, ok, from]
    pc          \* discovery: "idle", "reply", "entry", "returned", "aborted"

vars == <<dev, last, nCalls, nServed, nPosts, replies, ri, xi, nvtDevices, attempts, pc>>

sessionVars == <<dev, last, nCalls, nServed, nPosts>>

discoveryVars == <<replies, ri, xi, nvtDevices, attempts, pc>>

(***************************************************************************)
(* Bounds of the model.                                                    *)
(***************************************************************************)
MaxCalls == 3

MaxReplies == 2

MaxMatches == 2

(***************************************************************************)
(* Character strings.                                                      *)
(***************************************************************************)
sDevice == <<"D", "e", "v", "i", "c", "e">>

sMedia == <<"M", "e", "d", "i", "a">>

sEvents == <<"E", "v", "e", "n", "t", "s">>

sEvent == <<"E", "v", "e", "n", "t">>

sPTZ == <<"P", "T", "Z">>

\* unicode.ToLower on the letters that occur in the tags
LowerChar(c) ==
    CASE c = "D" -> "d"
      [] c = "M" -> "m"
      [] c = "E" -> "e"
      [] c = "P" -> "p"
      [] c = "T" -> "t"
      [] c = "Z" -> "z"
      [] OTHER -> c

\* strings.ToLower
ToLower(s) == [i \in 1..Len(s) |-> LowerChar(s[i])]

\* strings.Contains(s, substr)
Contains(s, substr) ==
    \E i \in 0..(Len(s) - Len(substr)) : SubSeq(s, i + 1, i + Len(substr)) = substr

\* strings.Index(s, tok) on a token sequence: 0-based position, -1 when absent
Index(s, tok) ==
    IF \E i \in 1..Len(s) : s[i] = tok
    THEN (CHOOSE i \in 1..Len(s) : s[i] = tok /\ \A j \in 1..(i - 1) : s[j] # tok) - 1
    ELSE -1

(***************************************************************************)
(* URLs: net/url as used by addEndpoint.  A URL text is a token sequence   *)
(* such as <<"http:", "//", "10.0.0.1", ":8080", "/onvif/media">>.         *)
(***************************************************************************)
Hosts == {"192.168.1.5", "10.0.0.1"}

PortToks == {":8080", ":x"}

\* validOptionalPort: a colon followed by digits only
ValidPort(tok) == tok = ":8080"

IsPathTok(tok) == tok \notin (Hosts \cup PortToks \cup {"http:", "//"})

\* url.Parse(text): [err, Scheme, Opaque, Host, Path]
urlParse(text) ==
    LET hasScheme == Len(text) > 0 /\ text[1] = "http:"
        scheme == IF hasScheme THEN "http" ELSE ""
        rest == IF hasScheme THEN Tail(text) ELSE text
        bad == [err |-> TRUE, Scheme |-> "", Opaque |-> <<>>, Host |-> <<>>, Path |-> <<>>]
    IN  IF Len(rest) > 0 /\ rest[1] = "//"
        THEN \* an authority follows: host, optional port, then the path
             LET auth == Tail(rest)
                 n == IF Len(auth) > 0 /\ IsPathTok(auth[Len(auth)])
                      THEN Len(auth) - 1 ELSE Len(auth)
                 host == SubSeq(auth, 1, n)
                 path == SubSeq(auth, n + 1, Len(auth))
             IN  IF \E i \in 1..Len(host) : host[i] \in PortToks /\ ~ValidPort(host[i])
                 THEN bad   \* invalid port after host
                 ELSE [err |-> FALSE, Scheme |-> scheme, Opaque |-> <<>>,
                       Host |-> host, Path |-> path]
        ELSE IF hasScheme /\ Len(rest) > 0 /\ ~IsPathTok(rest[1])
        THEN \* a rootless path after a scheme is opaque
             [err |-> FALSE, Scheme |-> scheme, Opaque |-> rest,
              Host |-> <<>>, Path |-> <<>>]
        ELSE [err |-> FALSE, Scheme |-> scheme, Opaque |-> <<>>,
              Host |-> <<>>, Path |-> rest]

\* URL.String()
urlString(u) ==
    LET s == IF u.Scheme # "" THEN <<"http:">> ELSE <<>>
    IN  IF u.Opaque # <<>>
        THEN s \o u.Opaque
        ELSE s \o (IF u.Scheme # "" \/ u.Host # <<>> THEN <<"//">> \o u.Host ELSE <<>>)
               \o (IF u.Path # <<>> /\ u.Host # <<>> /\ ~IsPathTok(u.Path[1])
                   THEN <<"/">> ELSE <<>>)
               \o u.Path

(***************************************************************************)
(* The endpoint table: a set of [key, url] entries, one per key.           *)
(***************************************************************************)
Keys(endpoints) == {e.key : e \in endpoints}

Lookup(endpoints, k) == (CHOOSE e \in endpoints : e.key = k).url

\* dev.endpoints[lowCaseKey] = Value
MapPut(endpoints, k, v) ==
    {e \in endpoints : e.key # k} \cup {[key |-> k, url |-> v]}

\* the Value addEndpoint stores: host replaced when the text parses
rewriteHost(Ipddr, Value) ==
    LET u == urlParse(Value)
    IN  IF ~u.err THEN urlString([u EXCEPT !.Host = Ipddr]) ELSE Value

\* func (dev *Device) addEndpoint(Key, Value string)
addEndpoint(d, Key, Value) ==
    [d EXCEPT !.endpoints = MapPut(@, ToLower(Key), rewriteHost(d.Params.Ipddr, Value))]

ErrNone == "nil"

ErrNotFound == "target endpoint service not found"

\* the keys the fuzzy loop of getEndpoint may return
fuzzyKeys(endpoints, endpoint) == {k \in Keys(endpoints) : Contains(k, endpoint)}

\* fault variant of getEndpoint: the substring search without the exact lookup
getEndpointFuzzyOnly(d, endpoint) ==
    IF fuzzyKeys(d.endpoints, endpoint) # {}
    THEN {[url |-> Lookup(d.endpoints, k), err |-> ErrNone] :
              k \in fuzzyKeys(d.endpoints, endpoint)}
    ELSE {[url |-> <<>>, err |-> ErrNotFound]}

\* func (dev Device) getEndpoint(endpoint string): the set of possible results,
\* one per key the map iteration may visit first
getEndpoint(d, endpoint) ==
    IF endpoint \in Keys(d.endpoints)
    THEN {[url |-> Lookup(d.endpoints, endpoint), err |-> ErrNone]}
    ELSE IF fuzzyKeys(d.endpoints, endpoint) # {}
    THEN {[url |-> Lookup(d.endpoints, k), err |-> ErrNone] :
              k \in fuzzyKeys(d.endpoints, endpoint)}
    ELSE {[url |-> <<>>, err |-> ErrNotFound]}

(***************************************************************************)
(* XML text: a token sequence of tags <<kind, prefix, local>> with kind    *)
(* "open" or "close", and character data <<"text", s>>.                    *)
(***************************************************************************)
Open(p, n) == <<"open", p, n>>

Close(p, n) == <<"close", p, n>>

Text(s) == <<"text", s>>

IsOpen(tok) == Len(tok) = 3 /\ tok[1] = "open"

IsClose(tok) == Len(tok) = 3 /\ tok[1] = "close"

IsText(tok) == Len(tok) = 2

BadXML == <<<<"bad">>>>

\* the open elements after reading the first n tokens, BadXML on a mismatched tag
RECURSIVE OpenStack(_, _)
OpenStack(text, n) ==
    IF n = 0 THEN <<>>
    ELSE LET st == OpenStack(text, n - 1)
             tok == text[n]
         IN  IF st = BadXML THEN BadXML
             ELSE IF IsOpen(tok) THEN Append(st, tok)
             ELSE IF IsClose(tok)
             THEN IF st # <<>> /\ st[Len(st)] = Open(tok[2], tok[3])
                  THEN SubSeq(st, 1, Len(st) - 1)
                  ELSE BadXML
             ELSE st

\* the XML parser accepts the text: every tag is closed in order
WellFormed(text) == OpenStack(text, Len(text)) = <<>>

\* the character data that directly follows position i
RECURSIVE TextAt(_, _)
TextAt(text, i) ==
    IF i <= Len(text) /\ IsText(text[i])
    THEN <<text[i][2]>> \o TextAt(text, i + 1)
    ELSE <<>>

LocalNames(st) == [i \in 1..Len(st) |-> st[i][3]]

\* conversion between a name token and its characters
Chars(name) ==
    CASE name = "Device" -> sDevice
      [] name = "Media" -> sMedia
      [] name = "Events" -> sEvents
      [] name = "Event" -> sEvent
      [] name = "PTZ" -> sPTZ
      [] name = "device" -> ToLower(sDevice)
      [] name = "media" -> ToLower(sMedia)
      [] name = "events" -> ToLower(sEvents)
      [] name = "event" -> ToLower(sEvent)
      [] name = "ptz" -> ToLower(sPTZ)
      [] OTHER -> <<>>

(***************************************************************************)
(* Request and response values: a Go type [ptr, pkgName, name] (name a     *)
(* sequence of words, so that appending "Response" is concatenation), and  *)
(* whether xml.Marshal accepts the value.                                  *)
(***************************************************************************)
\* reflect.TypeOf(v).String()
typeString(t) == (IF t.ptr THEN <<"*">> ELSE <<>>) \o <<t.pkgName, ".">> \o t.name

\* s[strings.Index(s, ".")+1:]
afterDot(s) == SubSeq(s, Index(s, ".") + 2, Len(s))

\* last element of reflect.TypeOf(method).PkgPath(), lower-cased; a pointer
\* type has the empty PkgPath
pkgOf(t) == IF t.ptr THEN <<>> ELSE ToLower(Chars(t.pkgName))

ErrParam == "calls or returns struct parameter errors"

ErrTarget == "target returned an error"

ErrMarshal == "xml: unsupported type"

ErrTransport == "Post: dial tcp: connection refused"

ErrSyntax == "XML syntax error"

ErrPanic == "panic: slice bounds out of range"

StatusOK == 200

\* fault variant of SendSoap: a failed Post is tried once more
SendSoapRetry(endpoint, net) ==
    [posted |-> IF net.transport = "err" THEN <<endpoint, endpoint>> ELSE <<endpoint>>,
     resp |-> IF net.transport = "err" THEN <<>> ELSE <<net>>,
     err |-> IF net.transport = "err" THEN ErrTransport ELSE ErrNone]

\* func SendSoap(httpClient, endpoint, message): one httpClient.Post
SendSoap(endpoint, net) ==
    [posted |-> <<endpoint>>,
     resp |-> IF net.transport = "err" THEN <<>> ELSE <<net>>,
     err |-> IF net.transport = "err" THEN ErrTransport ELSE ErrNone]

\* func (dev Device) callMethodDo(endpoint string, method interface{});
\* method.marshals says whether xml.Marshal and buildMethodSOAP accept the value.
\* The WS-Security header added for a session with credentials changes the
\* message only, not what is sent where.
callMethodDo(endpoint, method, net) ==
    IF ~method.marshals
    THEN [events |-> <<"marshal">>, posted |-> <<>>, resp |-> <<>>, err |-> ErrMarshal]
    ELSE LET r == SendSoap(endpoint, net)
         IN  [events |-> <<"marshal", "serialized">> \o [i \in 1..Len(r.posted) |-> "post"],
              posted |-> r.posted, resp |-> r.resp, err |-> r.err]

\* func (dev Device) CallMethod(method interface{}), for the endpoint ep that
\* getEndpoint returned
CallMethod(method, ep, net) ==
    IF ep.err # ErrNone
    THEN [events |-> <<"getEndpoint">>, posted |-> <<>>, resp |-> <<>>, err |-> ep.err]
    ELSE LET r == callMethodDo(ep.url, method, net)
         IN  [r EXCEPT !.events = <<"getEndpoint">> \o @]

\* fault.Reason.Text after xml.Unmarshal([]byte(msg), &fault)
faultReasonText(msg) ==
    IF \E i \in 1..(Len(msg) - 2) :
           /\ OpenStack(msg, i - 1) # BadXML
           /\ Len(OpenStack(msg, i - 1)) = 1
           /\ IsOpen(msg[i]) /\ msg[i][3] = "Reason"
           /\ IsOpen(msg[i + 1]) /\ msg[i + 1][3] = "Text"
           /\ IsText(msg[i + 2])
    THEN LET i == CHOOSE i \in 1..(Len(msg) - 2) :
                      /\ OpenStack(msg, i - 1) # BadXML
                      /\ Len(OpenStack(msg, i - 1)) = 1
                      /\ IsOpen(msg[i]) /\ msg[i][3] = "Reason"
                      /\ IsOpen(msg[i + 1]) /\ msg[i + 1][3] = "Text"
                      /\ IsText(msg[i + 2])
         IN  msg[i + 2][2]
    ELSE ""

\* func checkFaultCode(msg string) error
checkFaultCode(msg) ==
    IF faultReasonText(msg) # "" THEN faultReasonText(msg) ELSE ErrNone

\* xml.Unmarshal([]byte(bodyMsg), &response): the error and the value left in
\* the caller's response
unmarshalResponse(bodyMsg, response) ==
    IF WellFormed(bodyMsg) /\ bodyMsg # <<>>
    THEN [err |-> ErrNone, value |-> bodyMsg]
    ELSE [err |-> ErrSyntax,
          value |-> IF bodyMsg # <<>> /\ IsOpen(bodyMsg[1])
                    THEN SubSeq(bodyMsg, 1, 1) ELSE response.value]

\* the namespaces whose Body tags are searched, in order
spaces == <<"env", "s">>

\* the spacesIndex the search loop ends with (the last prefix found), -1 if none
spacesIndexOf(retString) ==
    LET found == {i \in 1..Len(spaces) :
                     /\ Index(retString, Open(spaces[i], "Body")) > 0
                     /\ Index(retString, Close(spaces[i], "Body")) > 0}
    IN  IF found = {} THEN -1
        ELSE (CHOOSE i \in found : \A j \in found : j <= i) - 1

\* fault variant of decodeReply: the body is deserialized before the fault check
decodeReplyUnmarshalFirst(retString, response) ==
    LET spacesIndex == spacesIndexOf(retString)
    IN  IF spacesIndex >= 0
        THEN LET from == Index(retString, Open(spaces[spacesIndex + 1], "Body")) + 1
                 to == Index(retString, Close(spaces[spacesIndex + 1], "Body"))
                 bodyMsg == SubSeq(retString, from + 1, to)
                 u == unmarshalResponse(bodyMsg, response)
             IN  IF u.err # ErrNone
                 THEN [events |-> <<"read", "unmarshal">>, err |-> u.err, value |-> u.value]
                 ELSE [events |-> <<"read", "unmarshal", "checkFaultCode">>,
                       err |-> checkFaultCode(bodyMsg), value |-> u.value]
        ELSE [events |-> <<"read">>, err |-> ErrTarget, value |-> response.value]

\* the part of CallMethodInterface after the HTTP exchange: locate the Body,
\* check for a fault, deserialize
decodeReply(retString, response) ==
    LET spacesIndex == spacesIndexOf(retString)
    IN  IF spacesIndex >= 0
        THEN LET from == Index(retString, Open(spaces[spacesIndex + 1], "Body")) + 1
                 to == Index(retString, Close(spaces[spacesIndex + 1], "Body"))
                 bodyMsg == SubSeq(retString, from + 1, to)
             IN  IF from > to
                 THEN [events |-> <<"read">>, err |-> ErrPanic, value |-> response.value]
                 ELSE IF checkFaultCode(bodyMsg) # ErrNone
                 THEN [events |-> <<"read", "checkFaultCode">>,
                       err |-> checkFaultCode(bodyMsg), value |-> response.value]
                 ELSE LET u == unmarshalResponse(bodyMsg, response)
                      IN  [events |-> <<"read", "checkFaultCode", "unmarshal">>,
                           err |-> u.err, value |-> u.value]
        ELSE [events |-> <<"read">>, err |-> ErrTarget, value |-> response.value]

\* fault variant of validPairing: only the "Response" suffix is tested
validPairingSuffixOnly(method, response) ==
    LET n == afterDot(typeString(response.type))
    IN  Len(n) > 0 /\ n[Len(n)] = "Response"

\* the pairing test of CallMethodInterface
validPairing(method, response) ==
    afterDot(typeString(method.type)) \o <<"Response">> = afterDot(typeString(response.type))

\* the endpoint the request is sent to once the table lookup has returned ep
targetEndpoint(ep, RedirectURL) == IF RedirectURL # <<>> THEN RedirectURL ELSE ep.url

\* func (dev Device) CallMethodInterface(method, response, RedirectURL), for the
\* result ep of the table lookup and the outcome net of the HTTP exchange
CallMethodInterface(method, response, RedirectURL, ep, net) ==
    IF ~validPairing(method, response)
    THEN [events |-> <<>>, posted |-> <<>>, err |-> ErrParam, value |-> response.value]
    ELSE IF ep.err # ErrNone
    THEN [events |-> <<"getEndpoint">>, posted |-> <<>>, err |-> ep.err,
          value |-> response.value]
    ELSE LET r == callMethodDo(targetEndpoint(ep, RedirectURL), method, net)
         IN  IF r.err # ErrNone
             THEN [events |-> <<"getEndpoint">> \o r.events, posted |-> r.posted,
                   err |-> r.err, value |-> response.value]
             ELSE LET d == decodeReply(r.resp[1].Body, response)
                  IN  [events |-> <<"getEndpoint">> \o r.events \o d.events,
                       posted |-> r.posted, err |-> d.err, value |-> d.value]

(***************************************************************************)
(* The constructor.                                                        *)
(***************************************************************************)
\* device.GetCapabilities{Category: "All"}
getCapabilities ==
    [type |-> [ptr |-> FALSE, pkgName |-> "device", name |-> <<"GetCapabilities">>],
     marshals |-> TRUE]

\* "http://" + Ipddr + "/onvif/device_service"
deviceServiceURL(Ipddr) == <<"http:", "//">> \o Ipddr \o <<"/onvif/device_service">>

\* element i of the text is selected by
\* ./Envelope/Body/GetCapabilitiesResponse/Capabilities/*/XAddr
isServiceXAddr(data, i) ==
    /\ IsOpen(data[i]) /\ data[i][3] = "XAddr"
    /\ LET names == LocalNames(OpenStack(data, i - 1))
       IN  /\ Len(names) = 5
           /\ SubSeq(names, 1, 4) =
                  <<"Envelope", "Body", "GetCapabilitiesResponse", "Capabilities">>

\* the loop of getSupportedServices over the selected elements from position i on
RECURSIVE addServices(_, _, _)
addServices(d, data, i) ==
    IF i > Len(data) THEN d
    ELSE IF isServiceXAddr(data, i)
    THEN LET parent == OpenStack(data, i - 1)[5]
         IN  addServices(addEndpoint(d, Chars(parent[3]), TextAt(data, i + 1)), data, i + 1)
    ELSE addServices(d, data, i + 1)

\* func (dev *Device) getSupportedServices(resp *http.Response)
getSupportedServices(d, resp) ==
    IF ~WellFormed(resp.Body) THEN d ELSE addServices(d, resp.Body, 1)

\* fault variant of capabilitiesFailed: the status code is not looked at
capabilitiesFailedErrOnly(r) == r.err # ErrNone

\* NewDevice decides on the error and the status of the capabilities call
capabilitiesFailed(r) == r.err # ErrNone \/ r.resp[1].StatusCode # StatusOK

ErrUnavailable == "camera is not available or it does not support ONVIF services"

\* func NewDevice(params DeviceParams) (*Device, error): the possible results
\* for the outcome net of the capabilities request
NewDevice(params, net) ==
    LET d0 == [Params |-> params, endpoints |-> {}]
        d1 == addEndpoint(d0, sDevice, deviceServiceURL(params.Ipddr))
    IN  {LET r == CallMethod(getCapabilities, ep, net)
         IN  IF capabilitiesFailed(r)
             THEN [dev |-> <<>>, err |-> ErrUnavailable, posted |-> r.posted,
                   events |-> <<"addEndpoint">> \o r.events]
             ELSE [dev |-> <<getSupportedServices(d1, r.resp[1])>>, err |-> ErrNone,
                   posted |-> r.posted,
                   events |-> <<"addEndpoint">> \o r.events \o <<"getSupportedServices">>]
         : ep \in getEndpoint(d1, pkgOf(getCapabilities.type))}

(***************************************************************************)
(* Inputs: device addresses, replies of the device, requests.              *)
(***************************************************************************)
Params(Ipddr) ==
    [Ipddr |-> Ipddr, Uuid |-> <<>>, Types |-> <<>>, Name |-> "", Model |-> "", MAC |-> ""]

Addrs == {<<"192.168.1.5">>, <<"10.0.0.1", ":8080">>}

Envelope(p, inner) ==
    <<Open(p, "Envelope"), Open(p, "Body")>> \o inner
        \o <<Close(p, "Body"), Close(p, "Envelope")>>

FaultElem(p, reason) ==
    <<Open(p, "Fault"), Open("", "Reason"), Open("", "Text")>> \o reason
        \o <<Close("", "Text"), Close("", "Reason"), Close(p, "Fault")>>

ServiceElem(tag, xaddr) ==
    <<Open("tt", tag), Open("tt", "XAddr")>> \o [i \in 1..Len(xaddr) |-> Text(xaddr[i])]
        \o <<Close("tt", "XAddr"), Close("tt", tag)>>

CapsElem(services) ==
    <<Open("tds", "GetCapabilitiesResponse"), Open("tt", "Capabilities")>> \o services
        \o <<Close("tt", "Capabilities"), Close("tds", "GetCapabilitiesResponse")>>

CapsA ==
    CapsElem(ServiceElem("Media", <<"http:", "//", "10.0.0.1", "/onvif/media">>)
             \o ServiceElem("Events", <<"http:", "//", "10.0.0.1", "/onvif/events">>))

CapsB ==
    CapsElem(ServiceElem("Events", <<"http:", "//", "10.0.0.1", "/onvif/events">>)
             \o ServiceElem("Event", <<"http:", "//", "10.0.0.1", ":8080", "/onvif/event">>))

CapsC == CapsElem(ServiceElem("Media", <<"http:", "//", "10.0.0.1", ":x", "/onvif/media">>))

CapsD == CapsElem(ServiceElem("Media", <<"http:", "10.0.0.1", "/onvif/media">>))

CapsE == CapsElem(ServiceElem("PTZ", <<"http:", "//", "192.168.1.5", "/onvif/ptz">>))

NotAuthorized == <<Text("NotAuthorized")>>

Truncated == <<Open("env", "Envelope"), Open("env", "Body"), Open("tds", "GetCapabilitiesResponse")>>

NoBody == <<Open("env", "Envelope"), Close("env", "Envelope")>>

Reply(status, body) == [transport |-> "ok", StatusCode |-> status, Body |-> body]

NetError == [transport |-> "err", StatusCode |-> 0, Body |-> <<>>]

\* outcomes of the capabilities request of NewDevice
CapNet ==
    {NetError}
    \cup {Reply(200, Envelope("env", c)) : c \in {CapsA, CapsB, CapsC, CapsD, CapsE}}
    \cup {Reply(200, Envelope("env", FaultElem("env", NotAuthorized))),
          Reply(200, Truncated),
          Reply(500, Envelope("env", FaultElem("env", NotAuthorized))),
          Reply(500, Envelope("env", CapsA))}

\* outcomes of the request of a call
CallNet ==
    {NetError}
    \cup {Reply(500, Envelope(p, FaultElem(p, NotAuthorized))) : p \in {"env", "s", "SOAP-ENV"}}
    \cup {Reply(200, Envelope("env", FaultElem("env", NotAuthorized))),
          Reply(500, Envelope("env", FaultElem("env", <<>>))),
          Reply(200, Envelope("env", CapsA)),
          Reply(200, Envelope("env", <<Open("tds", "GetCapabilitiesResponse")>>)),
          Reply(200, NoBody)}

\* outcomes of the capabilities request for the sessions that are then called
ConnectNet == {NetError, Reply(200, Envelope("env", CapsA)), Reply(200, Envelope("env", CapsE))}

Request(ptr, pkgName, name, marshals) ==
    [type |-> [ptr |-> ptr, pkgName |-> pkgName, name |-> name], marshals |-> marshals]

Methods ==
    {Request(FALSE, "device", <<"GetCapabilities">>, TRUE),
     Request(FALSE, "event", <<"Subscribe">>, TRUE),
     Request(FALSE, "ptz", <<"GetCapabilities">>, TRUE),
     Request(FALSE, "device", <<"GetCapabilities">>, FALSE),
     Request(TRUE, "device", <<"GetCapabilities">>, TRUE)}

Initial == <<Text("initial")>>

Response(pkgName, name) ==
    [type |-> [ptr |-> TRUE, pkgName |-> pkgName, name |-> name], value |-> Initial]

Responses ==
    {Response("device", <<"GetCapabilities", "Response">>),
     Response("event", <<"Subscribe", "Response">>)}

RedirectURLs == {<<>>, <<"http:", "//", "10.0.0.1", "/onvif/subscription">>}

Names ==
    {Chars("device"), Chars("media"), Chars("events"), Chars("event"), Chars("ptz"), <<>>}

(***************************************************************************)
(* The session: a caller constructs a Device and calls it.                 *)
(***************************************************************************)
Served(events) == \E i \in 1..Len(events) : events[i] = "serialized"

\* the counters after an invocation with result r
Counted(r) ==
    /\ nCalls' = nCalls + 1
    /\ nServed' = nServed + (IF Served(r.events) THEN 1 ELSE 0)
    /\ nPosts' = nPosts + Len(r.posted)

\* a caller constructs a Device for one of the addresses
Construct(addrs, nets) ==
    /\ dev = <<>>
    /\ nCalls < MaxCalls
    /\ \E Ipddr \in addrs, net \in nets :
         \E r \in NewDevice(Params(Ipddr), net) :
            /\ dev' = r.dev
            /\ last' = [op |-> "NewDevice", Ipddr |-> Ipddr, net |-> net, res |-> r]
            /\ Counted(r)
    /\ UNCHANGED discoveryVars

DoNewDevice == Construct(Addrs, CapNet)

DoConnect == Construct({<<"192.168.1.5">>}, ConnectNet)

DoGetEndpoint ==
    /\ dev # <<>>
    /\ \E name \in Names :
         \E r \in getEndpoint(dev[1], name) :
            last' = [op |-> "getEndpoint", name |-> name, res |-> r]
    /\ UNCHANGED <<dev, nCalls, nServed, nPosts>>
    /\ UNCHANGED discoveryVars

DoCallMethod ==
    /\ dev # <<>>
    /\ nCalls < MaxCalls
    /\ \E method \in Methods, net \in CallNet :
         \E ep \in getEndpoint(dev[1], pkgOf(method.type)) :
            LET r == CallMethod(method, ep, net)
            IN  /\ last' = [op |-> "CallMethod", method |-> method, ep |-> ep,
                            net |-> net, res |-> r]
                /\ Counted(r)
    /\ UNCHANGED dev
    /\ UNCHANGED discoveryVars

DoCallMethodInterface ==
    /\ dev # <<>>
    /\ nCalls < MaxCalls
    /\ \E method \in Methods, response \in Responses, RedirectURL \in RedirectURLs,
          net \in CallNet :
         \E ep \in getEndpoint(dev[1], pkgOf(method.type)) :
            LET r == CallMethodInterface(method, response, RedirectURL, ep, net)
            IN  /\ last' = [op |-> "CallMethodInterface", method |-> method,
                            response |-> response, RedirectURL |-> RedirectURL,
                            ep |-> ep, net |-> net, res |-> r]
                /\ Counted(r)
    /\ UNCHANGED dev
    /\ UNCHANGED discoveryVars

SessionInit ==
    /\ dev = <<>>
    /\ last = [op |-> "none"]
    /\ nCalls = 0
    /\ nServed = 0
    /\ nPosts = 0

DiscoveryIdle ==
    /\ replies = <<>>
    /\ ri = 0
    /\ xi = 0
    /\ nvtDevices = <<>>
    /\ attempts = <<>>
    /\ pc = "idle"

Init == SessionInit /\ DiscoveryIdle

\* construction of a session and resolution of service names in its table
Next == DoNewDevice \/ DoGetEndpoint

Spec == Init /\ [][Next]_vars

\* a session and the calls dispatched through it
NextCall == DoConnect \/ DoCallMethod \/ DoCallMethodInterface

SpecCall == Init /\ [][NextCall]_vars

(***************************************************************************)
(* Discovery: GetAvailableDevicesAtSpecificEthernetInterface.              *)
(* A reply document is [wf, matches]: whether the XML parser accepts it,   *)
(* and its ProbeMatch elements in document order, each with the texts of   *)
(* its XAddrs, EndpointReference/Address, Types and Scopes children.       *)
(* XAddrs is the list of its space-separated URLs, a URL or a scope the    *)
(* list of its "/"-separated segments.                                     *)
(***************************************************************************)
\* the identity a device announces: one per device address
IdOf(host) == IF host = "192.168.1.5" THEN "cam-a" ELSE "cam-b"

Scope(kind, value) == <<"onvif:", "", "www.onvif.org", kind, value>>

ProbeMatch(host) ==
    [XAddrs |-> <<<<"http:", "", host, "onvif", "device_service">>,
                  <<"http:", "", "[fe80::1]", "onvif", "device_service">>>>,
     Address |-> <<"urn:", "uuid:", IdOf(host)>>,
     Types |-> <<"tds:NetworkVideoTransmitter", IdOf(host)>>,
     Scopes |-> <<Scope("type", "video_encoder"), Scope("MAC", IdOf(host)),
                  Scope("hardware", IdOf(host)), Scope("name", IdOf(host))>>]

MatchSeqs == UNION {[1..n -> {ProbeMatch(h) : h \in Hosts}] : n \in 1..MaxMatches}

Malformed == [wf |-> FALSE, matches |-> <<>>]

ReplyDocs == {Malformed} \cup {[wf |-> TRUE, matches |-> m] : m \in MatchSeqs}

ReplySeqs == UNION {[1..n -> ReplyDocs] : n \in 0..MaxReplies}

\* outcomes of the capabilities request of a candidate
DiscoveryNet == {NetError, Reply(500, Envelope("env", FaultElem("env", NotAuthorized))),
                 Reply(200, Envelope("env", CapsA))}

\* doc.Root().FindElements("./Body/ProbeMatches/ProbeMatch/<child>"): the texts
FindElements(doc, child) == [i \in 1..Len(doc.matches) |-> doc.matches[i][child]]

\* strings.Split(strings.Split(xaddr.Text(), " ")[0], "/")[2]
xaddrHost(text) == text[1][3]

\* fault variant of knownIndex: only the device appended last is compared
knownIndexLastOnly(devices, xaddr) ==
    IF Len(devices) > 0 /\ devices[Len(devices)].Params.Ipddr = <<xaddr>>
    THEN Len(devices) - 1
    ELSE Len(devices)

\* the index at which the search loop over nvtDevices stops
knownIndex(devices, xaddr) ==
    IF \E c \in 1..Len(devices) : devices[c].Params.Ipddr = <<xaddr>>
    THEN (CHOOSE c \in 1..Len(devices) :
              /\ devices[c].Params.Ipddr = <<xaddr>>
              /\ \A b \in 1..(c - 1) : devices[b].Params.Ipddr # <<xaddr>>) - 1
    ELSE Len(devices)

\* endpoints[0].Text()[strings.Index(endpoints[0].Text(), "uuid:")+5:]
uuidOf(address) == SubSeq(address, Index(address, "uuid:") + 2, Len(address))

\* the last segment of a scope
lastSegment(scope) == scope[Len(scope)]

hasSegment(scope, word) == \E i \in 1..Len(scope) : scope[i] = word

\* the loop over the scopes from position i on: MAC, then hardware, then name
RECURSIVE readScopes(_, _, _)
readScopes(params, scopes, i) ==
    IF i > Len(scopes) THEN params
    ELSE LET value == scopes[i]
             p == IF hasSegment(value, "MAC")
                  THEN [params EXCEPT !.MAC = lastSegment(value)]
                  ELSE IF hasSegment(value, "hardware")
                  THEN [params EXCEPT !.Model = lastSegment(value)]
                  ELSE IF hasSegment(value, "name")
                  THEN [params EXCEPT !.Name = lastSegment(value)]
                  ELSE params
         IN  readScopes(p, scopes, i + 1)

\* which ProbeMatch of the document the metadata is read from: endpoints[0]
metadataIndex(doc, i) == 1

\* the else branch of the inner loop: the device with the metadata of the reply
withMetadata(d, doc, i) ==
    LET m == metadataIndex(doc, i)
        p1 == [d.Params EXCEPT !.Uuid = uuidOf(FindElements(doc, "Address")[m]),
                               !.Types = FindElements(doc, "Types")[m]]
    IN  [d EXCEPT !.Params = readScopes(p1, FindElements(doc, "Scopes")[m], 1)]

\* soap.SendProbe returns the collected replies
SendProbe ==
    /\ pc = "idle"
    /\ \E r \in ReplySeqs : replies' = r
    /\ ri' = 1
    /\ xi' = 0
    /\ pc' = "reply"
    /\ UNCHANGED <<nvtDevices, attempts>>
    /\ UNCHANGED sessionVars

\* the head of the outer loop: parse the next reply, or return the devices
ReadReply ==
    /\ pc = "reply"
    /\ IF ri > Len(replies)
       THEN pc' = "returned" /\ UNCHANGED xi
       ELSE IF ~replies[ri].wf
       THEN pc' = "aborted" /\ UNCHANGED xi
       ELSE pc' = "entry" /\ xi' = 1
    /\ UNCHANGED <<replies, ri, nvtDevices, attempts>>
    /\ UNCHANGED sessionVars

\* fault variant of afterNewDevice: a failed construction ends the function
afterNewDeviceAbort(devices, r, doc, i) ==
    IF r.err # ErrNone
    THEN [devices |-> devices, pc |-> "aborted"]
    ELSE [devices |-> Append(devices, withMetadata(r.dev[1], doc, i)), pc |-> "entry"]

\* what one pass of the inner loop does with a candidate for which NewDevice
\* returned r: the devices, and where the function goes on
afterNewDevice(devices, r, doc, i) ==
    IF r.err # ErrNone
    THEN [devices |-> devices, pc |-> "entry"]
    ELSE [devices |-> Append(devices, withMetadata(r.dev[1], doc, i)), pc |-> "entry"]

\* one pass of the inner loop over the XAddrs elements of the reply
ProbeXAddr ==
    /\ pc = "entry"
    /\ xi <= Len(replies[ri].matches)
    /\ LET doc == replies[ri]
           xaddr == xaddrHost(FindElements(doc, "XAddrs")[xi])
       IN  IF knownIndex(nvtDevices, xaddr) < Len(nvtDevices)
           THEN UNCHANGED <<nvtDevices, attempts, pc>>
           ELSE \E net \in DiscoveryNet :
                  \E r \in NewDevice(Params(<<xaddr>>), net) :
                     /\ nvtDevices' = afterNewDevice(nvtDevices, r, doc, xi).devices
                     /\ pc' = afterNewDevice(nvtDevices, r, doc, xi).pc
                     /\ attempts' = Append(attempts,
                                           [addr |-> xaddr, ok |-> r.err = ErrNone,
                                            from |-> <<ri, xi>>])
    /\ xi' = xi + 1
    /\ UNCHANGED <<replies, ri>>
    /\ UNCHANGED sessionVars

\* the inner loop is over: on to the next reply
NextReply ==
    /\ pc = "entry"
    /\ xi > Len(replies[ri].matches)
    /\ ri' = ri + 1
    /\ pc' = "reply"
    /\ UNCHANGED <<replies, xi, nvtDevices, attempts>>
    /\ UNCHANGED sessionVars

\* the value GetAvailableDevicesAtSpecificEthernetInterface returns
Returned == IF pc = "returned" THEN nvtDevices ELSE <<>>

NextDiscovery == SendProbe \/ ReadReply \/ ProbeXAddr \/ NextReply

SpecDiscovery == Init /\ [][NextDiscovery]_vars

(***************************************************************************)
(* Properties.                                                             *)
(***************************************************************************)
\* the type names of the last call do not pair: response name # request name + "Response"
pairingMismatch == last.response.type.name # last.method.type.name \o <<"Response">>

\* the last operation went through the dispatcher
isCall == last.op \in {"CallMethod", "CallMethodInterface"}

\* the last invocation got past pairing validation, endpoint resolution and
\* serialization, judged on its inputs
pastSerialization ==
    /\ last.op = "CallMethodInterface" => ~pairingMismatch
    /\ last.ep.err = ErrNone
    /\ last.method.marshals

\* the reason text of the Fault that is the content of the envelope's Body
\* element, whatever its prefix; "" when there is none
bodyFaultReason(doc) ==
    IF /\ Len(doc) >= 6 /\ WellFormed(doc)
       /\ IsOpen(doc[2]) /\ doc[2][3] = "Body"
       /\ IsOpen(doc[3]) /\ doc[3][3] = "Fault"
       /\ IsOpen(doc[4]) /\ doc[4][3] = "Reason"
       /\ IsOpen(doc[5]) /\ doc[5][3] = "Text"
       /\ IsText(doc[6])
    THEN doc[6][2]
    ELSE ""

\* the HTTP exchange of the last CallMethodInterface completed and the Body of
\* the returned envelope holds a Fault with a non-empty reason
faultReturned ==
    /\ last.op = "CallMethodInterface"
    /\ pastSerialization
    /\ last.net.transport = "ok"
    /\ bodyFaultReason(last.net.Body) # ""

\* the call failed with the reason text, without deserializing into the response
faultReported ==
    /\ last.res.err = bodyFaultReason(last.net.Body)
    /\ Index(last.res.events, "unmarshal") = -1
    /\ last.res.value = last.response.value

(* C1: a request/response pair whose response type name is not the request   *)
(* type name followed by "Response" makes CallMethodInterface return the      *)
(* invalid-pairing error, and by then no endpoint lookup, no serialization    *)
(* and no HTTP request has happened.                                          *)
C1_InvalidPairingBeforeIO ==
    (last.op = "CallMethodInterface" /\ pairingMismatch) =>
        /\ last.res.err = ErrParam
        /\ last.res.events = <<>>
        /\ last.res.posted = <<>>
        /\ last.res.value = last.response.value

C1_Witness ==
    /\ last.op = "CallMethodInterface" /\ pairingMismatch
    /\ last.ep.err = ErrNone /\ last.method.marshals /\ last.net.transport = "ok"
    /\ last.res.err = ErrParam
    /\ nPosts = 1

(* C2, as stated: whenever the HTTP exchange completes (any status code) and  *)
(* the Body of the returned envelope holds a Fault with a non-empty           *)
(* Reason/Text, the call returns that reason text as its error, the nominal   *)
(* response is not deserialized and the caller's response is unmodified.      *)
C2_FaultReportedForAnyEnvelope == faultReturned => faultReported

(* C2, amended: the same, for an envelope whose Body element is written with  *)
(* the tags <env:Body> or <s:Body>, the two the dispatcher searches for.      *)
C2_FaultReportedForEnvOrS ==
    (faultReturned /\ last.net.Body[2][2] \in {"env", "s"}) => faultReported

C2_Witness ==
    /\ faultReturned
    /\ last.net.StatusCode = 500
    /\ last.net.Body[2][2] = "s"
    /\ last.res.err = "NotAuthorized"
    /\ last.res.value = Initial

(* C3: every value stored in the endpoint table of a Device is a URL whose    *)
(* host is the device's configured address Params.Ipddr, and the path of each *)
(* advertised XAddr is preserved.                                             *)
C3_TableHostsAreDeviceAddress ==
    dev # <<>> =>
        /\ \A e \in dev[1].endpoints :
              LET u == urlParse(e.url)
              IN  ~u.err /\ u.Opaque = <<>> /\ u.Host = dev[1].Params.Ipddr
        /\ last.op = "NewDevice" =>
              \A i \in 1..Len(last.net.Body) :
                 isServiceXAddr(last.net.Body, i) =>
                    LET xaddr == TextAt(last.net.Body, i + 1)
                        key == ToLower(Chars(last.net.Body[i - 1][3]))
                    IN  /\ key \in Keys(dev[1].endpoints)
                        /\ urlParse(Lookup(dev[1].endpoints, key)).Path
                               = <<xaddr[Len(xaddr)]>>

(* C4: getEndpoint(name) returns the URL stored under name when that key      *)
(* exists; otherwise the URL of some key that contains name; and the          *)
(* not-found error exactly when no key equals or contains name.  With keys    *)
(* device, media, events: "event" gives the URL under "events" and "ptz" the  *)
(* not-found error.                                                           *)
C4_Resolve ==
    last.op = "getEndpoint" =>
        LET table == dev[1].endpoints
            name == last.name
            matching == {e \in table : Contains(e.key, name)}
        IN  /\ (\E e \in table : e.key = name) =>
                  /\ last.res.err = ErrNone
                  /\ \E e \in table : e.key = name /\ e.url = last.res.url
            /\ (matching # {} /\ ~\E e \in table : e.key = name) =>
                  /\ last.res.err = ErrNone
                  /\ \E e \in matching : e.url = last.res.url
            /\ last.res.err = ErrNotFound <=> matching = {}
            /\ last.res.err \in {ErrNone, ErrNotFound}
            /\ Keys(table) = {Chars("device"), Chars("media"), Chars("events")} =>
                  /\ name = Chars("event") =>
                        /\ last.res.err = ErrNone
                        /\ [key |-> Chars("events"), url |-> last.res.url] \in table
                  /\ name = Chars("ptz") => last.res.err = ErrNotFound

C4_Witness ==
    /\ last.op = "getEndpoint"
    /\ Keys(dev[1].endpoints) = {Chars("device"), Chars("media"), Chars("events")}
    /\ last.name = Chars("event")
    /\ last.res.url = <<"http:", "//", "192.168.1.5", "/onvif/events">>

(* C5: with a valid pairing and a non-empty redirectURL, the request is       *)
(* POSTed to redirectURL and a missing table entry for the request's service  *)
(* does not make the call fail with endpoint-not-found.                       *)
C5_RedirectOverridesTable ==
    (/\ last.op = "CallMethodInterface"
     /\ ~pairingMismatch
     /\ last.RedirectURL # <<>>) =>
        /\ last.res.err # ErrNotFound
        /\ last.method.marshals => last.res.posted = <<last.RedirectURL>>

(* C6: an invocation of CallMethodInterface or CallMethod that gets past      *)
(* pairing validation, endpoint resolution and serialization performs exactly *)
(* one HTTP POST, every other invocation none, whatever the outcome; the      *)
(* POSTs issued so far are as many as the invocations that got that far.      *)
C6_OnePostPerCall ==
    /\ nPosts = nServed
    /\ nServed <= nCalls
    /\ isCall => Len(last.res.posted) = (IF pastSerialization THEN 1 ELSE 0)
    /\ last.op = "NewDevice" => Len(last.res.posted) = 1

C6_Witness ==
    /\ last.op = "CallMethodInterface"
    /\ pastSerialization
    /\ last.net.transport = "err"
    /\ Len(last.res.posted) = 1
    /\ nPosts = 2

(* C7: NewDevice registers "device" -> http://<address>/onvif/device_service  *)
(* before its single GetCapabilities request is sent; it returns an error     *)
(* and no Device whenever the request ends in a transport error or a status   *)
(* other than 200, whatever the body; and the table is populated from the     *)
(* response only on the success path.                                         *)
C7_Construction ==
    last.op = "NewDevice" =>
        LET r == last.res
            failed == last.net.transport = "err" \/ last.net.StatusCode # 200
        IN  /\ r.posted = <<deviceServiceURL(last.Ipddr)>>
            /\ Index(r.events, "addEndpoint") = 0
            /\ Index(r.events, "post") > 0
            /\ failed => r.dev = <<>> /\ r.err # ErrNone /\ dev = <<>>
            /\ ~failed => r.dev # <<>> /\ r.err = ErrNone /\ dev = r.dev
            /\ Index(r.events, "getSupportedServices") >= 0 <=> ~failed

C7_Witness ==
    /\ last.op = "NewDevice"
    /\ last.net.StatusCode = 500
    /\ bodyFaultReason(last.net.Body) = "NotAuthorized"
    /\ last.res.err = ErrUnavailable
    /\ dev = <<>>

\* no two devices of the list have the same address
distinctAddresses(devices) ==
    \A i, j \in 1..Len(devices) :
        i < j => devices[i].Params.Ipddr # devices[j].Params.Ipddr

\* the positions <<reply, entry>> of the XAddrs elements of the replies
candidates ==
    {c \in (1..Len(replies)) \X (1..MaxMatches) :
        replies[c[1]].wf /\ c[2] <= Len(replies[c[1]].matches)}

hostAt(c) == xaddrHost(replies[c[1]].matches[c[2]].XAddrs)

returnedHosts == {Returned[k].Params.Ipddr[1] : k \in 1..Len(Returned)}

(* C8: the list of devices never holds two devices with the same address; a   *)
(* host that a device of the list already has is skipped without a            *)
(* construction, so two ProbeMatch entries with the same host give one entry. *)
C8_NoDuplicateDevices ==
    /\ distinctAddresses(nvtDevices)
    /\ distinctAddresses(Returned)
    /\ \A a, b \in 1..Len(attempts) :
          (a < b /\ attempts[a].ok) => attempts[b].addr # attempts[a].addr
    /\ pc = "returned" =>
          \A c \in candidates :
             Cardinality({k \in 1..Len(Returned) :
                             Returned[k].Params.Ipddr = <<hostAt(c)>>})
                 = (IF \E a \in 1..Len(attempts) :
                           attempts[a].ok /\ attempts[a].addr = hostAt(c)
                    THEN 1 ELSE 0)

C8_Witness ==
    /\ pc = "returned"
    /\ Len(replies) = 1
    /\ Len(replies[1].matches) = 2
    /\ hostAt(<<1, 1>>) = hostAt(<<1, 2>>)
    /\ Len(Returned) = 1
    /\ Len(attempts) = 1

allWellFormed == \A i \in 1..Len(replies) : replies[i].wf

(* C9: when every reply is well-formed XML, a failed construction is skipped  *)
(* and never ends the probe: the returned list has a device for an address    *)
(* only if a construction for it succeeded, and every candidate whose         *)
(* construction succeeds is returned, whatever failed before or after it.     *)
C9_FailedCandidateSkipped ==
    allWellFormed =>
        /\ pc # "aborted"
        /\ pc = "returned" =>
              /\ \A h \in returnedHosts :
                    \E a \in 1..Len(attempts) : attempts[a].ok /\ attempts[a].addr = h
              /\ \A a \in 1..Len(attempts) :
                    attempts[a].ok => attempts[a].addr \in returnedHosts
              /\ \A c \in candidates :
                    \/ hostAt(c) \in returnedHosts
                    \/ \E a \in 1..Len(attempts) :
                          attempts[a].from = c /\ ~attempts[a].ok

C9_Witness ==
    /\ pc = "returned"
    /\ allWellFormed
    /\ Len(attempts) = 3
    /\ ~attempts[1].ok /\ attempts[2].ok /\ ~attempts[3].ok
    /\ Len(Returned) = 1

isOk(a) == a.ok

\* the position of the XAddrs element that supplied the address of device k
sourceOf(k) == SelectSeq(attempts, isOk)[k].from

(* C10: the Uuid, Types, MAC, Model and Name of each device of the list are   *)
(* those of the ProbeMatch entry that supplied the device's address.          *)
C10_MetadataOfOwnProbeMatch ==
    \A k \in 1..Len(nvtDevices) :
        LET m == replies[sourceOf(k)[1]].matches[sourceOf(k)[2]]
            p == nvtDevices[k].Params
        IN  /\ p.Uuid = <<m.Address[3]>>
            /\ p.Types = m.Types
            /\ p.MAC = m.Scopes[2][5]
            /\ p.Model = m.Scopes[3][5]
            /\ p.Name = m.Scopes[4][5]

====
